---------------------------- MODULE Spec2Model ----------------------------
(***************************************************************************)
(* Model of src/bin/electra_stacking/cmd_merge_lrgb.rs: the LRGB merge     *)
(* command.  `execute` opens four FITS files, picks the grayscale plane of *)
(* each with `find_mono_data`, merges the planes in `create_rgb_hdu` and   *)
(* hands the composite to the FITS writer.                                 *)
(***************************************************************************)
EXTENDS Integers, Sequences, FiniteSets, TLC

(***************************************************************************)
(* Bounds of the model.                                                    *)
(***************************************************************************)
\* largest red / green / blue sample value drawn for a pixel
MaxVal == 3
\* largest luminance sample value drawn for a pixel
MaxLum == 9
\* longest container (number of HDUs) given to find_mono_data
MaxHdus == 3

(***************************************************************************)
(* IEEE-754 binary floating point, as used by the `f32` / `f64` arithmetic *)
(* of the merge loops.  A finite non-zero value is sgn * man * 2^exp with  *)
(* man a p-bit mantissa (most significant bit first, man[1] = 1); zero has *)
(* sgn = 0.  Operations round to nearest, ties to even.  The samples of    *)
(* the model are small integers, so exponents stay far from the subnormal  *)
(* and overflow ranges, which are not modelled.                            *)
(***************************************************************************)
\* mantissa width of f32
F32Bits == 24
\* mantissa width of f64
F64Bits == 53
\* i32::MAX and i32::MIN, the saturation limits of `as i32`
MaxI32 == 2147483647
MinI32 == -MaxI32 - 1

FZero == [sgn |-> 0, man |-> <<>>, exp |-> 0]

Abs(x) == IF x < 0 THEN -x ELSE x
Min2(a, b) == IF a < b THEN a ELSE b
Sign(x) == IF x < 0 THEN -1 ELSE IF x = 0 THEN 0 ELSE 1

\* width of the limbs the digit arithmetic works in
LimbBits == 20

RECURSIVE DigitsVal(_, _, _)
\* the natural number the digits bits[lo..hi] denote (fewer than 31 digits)
DigitsVal(bits, lo, hi) ==
    IF lo > hi THEN 0
    ELSE IF lo = hi THEN bits[lo]
    ELSE LET mid == (lo + hi) \div 2
         IN DigitsVal(bits, lo, mid) * 2^(hi - mid) + DigitsVal(bits, mid + 1, hi)

\* the w binary digits of n < 2^w, most significant first
FixedBits(n, w) == [j \in 1..w |-> (n \div 2^(w - j)) % 2]

\* the digits without their leading zeros
Strip(bits) ==
    IF \A j \in 1..Len(bits) : bits[j] = 0 THEN <<>>
    ELSE LET first == CHOOSE j \in 1..Len(bits) :
                          bits[j] = 1 /\ \A t \in 1..(j - 1) : bits[t] = 0
         IN SubSeq(bits, first, Len(bits))

Zeros(n) == [j \in 1..n |-> 0]

\* mantissa + 1; a carry out of the top digit lengthens the sequence
IncBits(bits) ==
    IF \A j \in 1..Len(bits) : bits[j] = 1 THEN <<1>> \o Zeros(Len(bits))
    ELSE LET last == CHOOSE j \in 1..Len(bits) :
                         bits[j] = 0 /\ \A t \in (j + 1)..Len(bits) : bits[t] = 1
         IN [j \in 1..Len(bits) |-> IF j < last THEN bits[j] ELSE IF j = last THEN 1 ELSE 0]

\* round the digits `bits` (leading 1, last digit of weight 2^e, `sticky` iff
\* non-zero digits were already dropped below them) to a p-bit mantissa,
\* to nearest, ties to even
RoundBits(sgn, bits, e, sticky, p) ==
    LET n == Len(bits) IN
    IF n <= p
    THEN [sgn |-> sgn, man |-> bits \o Zeros(p - n), exp |-> e - (p - n)]
    ELSE LET keep == SubSeq(bits, 1, p)
             rb   == bits[p + 1]
             st   == sticky \/ \E j \in (p + 2)..n : bits[j] = 1
             up   == rb = 1 /\ (st \/ keep[p] = 1)
             inc  == IncBits(keep)
         IN IF ~up
            THEN [sgn |-> sgn, man |-> keep, exp |-> e + (n - p)]
            ELSE IF Len(inc) > p
                 THEN [sgn |-> sgn, man |-> SubSeq(inc, 1, p), exp |-> e + (n - p) + 1]
                 ELSE [sgn |-> sgn, man |-> inc, exp |-> e + (n - p)]

\* width of the chunks the long division produces its digits in
ChunkBits == 15

\* long division: the remainder r < b left after the next ChunkBits digits
ChunkRem(r, b) == (r * 2^ChunkBits) % b
\* long division: the next ChunkBits digits of r / b, for b < 2^15
ChunkDigits(r, b) == FixedBits((r * 2^ChunkBits) \div b, ChunkBits)

\* x / y in p-bit floating point for integer-valued operands, 0 < |y| < 2^15:
\* the quotient by long division to 75 digits below the point, rounded
FDiv(x, y, p) ==
    IF x = 0 THEN FZero
    ELSE LET b  == Abs(y)
             r0 == Abs(x) % b
             r1 == ChunkRem(r0, b)
             r2 == ChunkRem(r1, b)
             r3 == ChunkRem(r2, b)
             r4 == ChunkRem(r3, b)
             r5 == ChunkRem(r4, b)
             digits == FixedBits(Abs(x) \div b, 31)
                         \o ChunkDigits(r0, b) \o ChunkDigits(r1, b) \o ChunkDigits(r2, b)
                         \o ChunkDigits(r3, b) \o ChunkDigits(r4, b)
         IN RoundBits(Sign(x) * Sign(y), Strip(digits), -(5 * ChunkBits), r5 # 0, p)

\* the digits of man * m, for m < 2^10 and a mantissa of at most 3 limbs
MulDigits(man, m) ==
    LET n  == Len(man)
        m0 == DigitsVal(man, IF n > LimbBits THEN n - LimbBits + 1 ELSE 1, n)
        m1 == DigitsVal(man, IF n > 2 * LimbBits THEN n - 2 * LimbBits + 1 ELSE 1,
                        n - LimbBits)
        m2 == DigitsVal(man, 1, n - 2 * LimbBits)
        t0 == m0 * m
        t1 == m1 * m + t0 \div 2^LimbBits
        t2 == m2 * m + t1 \div 2^LimbBits
    IN Strip(FixedBits(t2, 31) \o FixedBits(t1 % 2^LimbBits, LimbBits)
                               \o FixedBits(t0 % 2^LimbBits, LimbBits))

\* x * f in p-bit floating point for an integer-valued x and a float f
FMul(x, f, p) ==
    IF x = 0 \/ f.sgn = 0 THEN FZero
    ELSE RoundBits(Sign(x) * f.sgn, MulDigits(f.man, Abs(x)), f.exp, FALSE, p)

\* the integer part of |f|, saturated at i32::MAX
TruncMag(f) ==
    LET nint == Len(f.man) + f.exp IN
    IF f.sgn = 0 \/ nint <= 0 THEN 0
    ELSE IF nint > 31 THEN MaxI32
    ELSE DigitsVal(f.man, 1, Min2(nint, Len(f.man))) * 2^(IF f.exp > 0 THEN f.exp ELSE 0)

\* `v as i32` on an f64: truncation toward zero, saturating at the type's limits
AsI32(f) ==
    IF f.sgn < 0
    THEN (IF Len(f.man) + f.exp > 31 THEN MinI32 ELSE -TruncMag(f))
    ELSE TruncMag(f)

\* `v as u32` on an f64: truncation toward zero, negative values saturate to 0
\* (products of the bounded samples stay below 2^31)
AsU32(f) == IF f.sgn < 0 THEN 0 ELSE TruncMag(f)

(***************************************************************************)
(* FITS data.  A FitsData value is its variant (enc), the shape of its     *)
(* array and the flat sample buffer.  Integer variants hold Option<T>      *)
(* samples: <<>> is None, <<v>> is Some(v).  Floating-point variants hold  *)
(* plain (integer-valued) samples.                                         *)
(***************************************************************************)
Supported == {"I32", "U32", "F32", "F64"}
IntEnc    == {"I32", "U32"}
Encodings == Supported \cup {"Chars"}

None == <<>>
Some(v) == <<v>>
IsSome(s) == s # None
Unwrap(s) == s[1]

FitsData(enc, shape, data) == [enc |-> enc, shape |-> shape, data |-> data]
NoData == FitsData("none", <<>>, <<>>)

RECURSIVE Product(_)
Product(shape) == IF shape = <<>> THEN 1 ELSE Head(shape) * Product(Tail(shape))

\* the four input channels in the order execute reads them
Order == <<"r", "g", "b", "l">>
Channels == {"r", "g", "b", "l"}

\* zero-based indexing of a Vec / slice
At(vec, idx) == vec[idx + 1]
Put(vec, idx, v) == [vec EXCEPT ![idx + 1] = v]

(***************************************************************************)
(* The program's results: anyhow errors carry their message, a panic       *)
(* (unwrap / expect / index out of bounds) unwinds out of execute.         *)
(***************************************************************************)
\* the message of the bail! of find_mono_data, raised on a second candidate
MsgAmbiguous   == "Grayscale data not found in FITS file"
MsgUnsupported == "Data type is not supported"
MsgMismatch    == "types of FITS file don't match"
MsgIo          == "io error opening FITS file"
MsgSave        == "Can't save result file"
MsgUnwrap      == "called Option::unwrap() on a None value"
MsgIndex       == "index out of bounds"

Running    == [kind |-> "running", msg |-> ""]
Ok         == [kind |-> "ok", msg |-> ""]
Err(msg)   == [kind |-> "err", msg |-> msg]
Panic(msg) == [kind |-> "panic", msg |-> msg]

VARIABLES
    files,      \* the four input files: [ok, hdus], ok = FALSE when it cannot be opened
    pc,         \* the statement execute is at
    k,          \* which file (index into Order) execute is working on
    fits,       \* the containers opened so far
    sel,        \* r_data, g_data, b_data, lum_data: the planes selected so far
    hdu,        \* find_mono_data: the candidate kept (0 is None, else its position)
    h,          \* find_mono_data: position of the iterator
    inspected,  \* history: positions find_mono_data has read in the current call
    dims,       \* create_rgb_hdu: dims
    res,        \* the result vector of the merge loop
    i,          \* the enumerate() index of the merge loop
    writes,     \* history: how often the loop has stored to each index of res
    divided,    \* history: per merged pixel, the divisors its divisions used
    primary,    \* primary_hdu: the composite returned by create_rgb_hdu
    saved,      \* how often Fits::create was invoked
    ret         \* what execute returned (or the panic it died with)

vars == <<files, pc, k, fits, sel, hdu, h, inspected, dims, res, i, writes, divided,
          primary, saved, ret>>

NoHdu == [dims |-> <<>>, data |-> <<>>]

\* get_shape with a plausible slip: the shape of every variant, Chars too
get_shape_any(data) == Some(data.shape)

\* get_shape: the shape of the four numeric variants, None (<<>>) for the rest
get_shape(data) ==
    IF data.enc \in {"I32", "U32", "F32", "F64"} THEN Some(data.shape) ELSE None

\* the test of find_mono_data on a shape
IsGray(shape) == Len(shape) = 2 \/ (Len(shape) = 3 /\ At(shape, 2) = 1)

\* h.read_data()
read_data(container, pos) == container[pos]

Stop(r) == /\ ret' = r
           /\ pc' = "done"

\* Fits::open(&opt.<file>)?
Open ==
    /\ pc = "open"
    /\ IF files[Order[k]].ok
       THEN /\ fits' = [fits EXCEPT ![Order[k]] = files[Order[k]].hdus]
            /\ pc' = "find"
            /\ hdu' = 0
            /\ h' = 1
            /\ inspected' = <<>>
            /\ UNCHANGED ret
       ELSE /\ Stop(Err(MsgIo))
            /\ UNCHANGED <<fits, hdu, h, inspected>>
    /\ UNCHANGED <<files, k, sel, dims, res, i, writes, divided, primary, saved>>

\* FindStep with a plausible slip: a later candidate replaces the one kept
\* and the scan goes on
FindStep_keep_last ==
    /\ pc = "find"
    /\ h <= Len(fits[Order[k]])
    /\ LET data  == read_data(fits[Order[k]], h)
           shape == get_shape(data)
       IN /\ inspected' = Append(inspected, h)
          /\ hdu' = IF IsSome(shape) /\ IsGray(Unwrap(shape)) THEN h ELSE hdu
          /\ h' = h + 1
          /\ UNCHANGED <<pc, ret>>
    /\ UNCHANGED <<files, k, fits, sel, dims, res, i, writes, divided, primary, saved>>

\* one iteration of `for h in fits.iter()` in find_mono_data
FindStep ==
    /\ pc = "find"
    /\ h <= Len(fits[Order[k]])
    /\ LET data  == read_data(fits[Order[k]], h)
           shape == get_shape(data)
       IN /\ inspected' = Append(inspected, h)
          /\ IF IsSome(shape) /\ IsGray(Unwrap(shape))
             THEN IF hdu = 0
                  THEN /\ hdu' = h
                       /\ h' = h + 1
                       /\ UNCHANGED <<pc, ret>>
                  ELSE /\ Stop(Err(MsgAmbiguous))
                       /\ UNCHANGED <<hdu, h>>
             ELSE /\ h' = h + 1
                  /\ UNCHANGED <<hdu, pc, ret>>
    /\ UNCHANGED <<files, k, fits, sel, dims, res, i, writes, divided, primary, saved>>

\* the end of find_mono_data: Ok(hdu.unwrap().read_data()), and execute's `?`
FindReturn ==
    /\ pc = "find"
    /\ h > Len(fits[Order[k]])
    /\ IF hdu = 0
       THEN /\ Stop(Panic(MsgUnwrap))
            /\ UNCHANGED <<sel, k>>
       ELSE /\ sel' = [sel EXCEPT ![Order[k]] = read_data(fits[Order[k]], hdu)]
            /\ IF k < Len(Order)
               THEN /\ k' = k + 1
                    /\ pc' = "open"
               ELSE /\ k' = k
                    /\ pc' = "create_rgb_hdu"
            /\ UNCHANGED ret
    /\ UNCHANGED <<files, fits, hdu, h, inspected, dims, res, i, writes, divided, primary, saved>>


\* t_to_f64, `|v| v as f64`: every i32 / u32 is exactly representable in f64
t_to_f64(v) == v

\* f64_to_t with a plausible slip: `v.round() as i32`, halves away from zero
f64_to_t_round(enc, f) ==
    LET nint == Len(f.man) + f.exp
        half == f.sgn # 0 /\ nint >= 0 /\ nint < Len(f.man) /\ f.man[nint + 1] = 1
        mag  == TruncMag(f) + (IF half THEN 1 ELSE 0)
    IN IF f.sgn < 0 THEN (IF enc = "I32" THEN -mag ELSE 0) ELSE mag

\* f64_to_t, `|v| v as i32` and `|v| v as u32`
f64_to_t(enc, f) == IF enc = "I32" THEN AsI32(f) ELSE AsU32(f)

\* `r + g + b` in the native type T (the bounded samples never overflow it)
RgbSum(r, g, b) == r + g + b

\* what one iteration of a merge loop computes: lum, the triple
\* (lum_r, lum_g, lum_b), and by, the divisors of the divisions it evaluated
Computed(lum, by) == [lum |-> lum, by |-> by]

\* PixelOpt with a plausible slip: only the luminance sample is checked
\* for None, a missing colour sample counts as 0
PixelOpt_unchecked(enc, l, r, g, b) ==
    LET val(s) == IF IsSome(s) THEN Unwrap(s) ELSE 0
        summ   == val(r) + val(g) + val(b)
    IN IF IsSome(l) /\ summ # 0
       THEN Computed(<<AsI32(FMul(Unwrap(l), FDiv(val(r), summ, F64Bits), F64Bits)),
                       AsI32(FMul(Unwrap(l), FDiv(val(g), summ, F64Bits), F64Bits)),
                       AsI32(FMul(Unwrap(l), FDiv(val(b), summ, F64Bits), F64Bits))>>,
                     <<summ, summ, summ>>)
       ELSE Computed(<<0, 0, 0>>, <<>>)

\* the body of the loop of create_fits_rgb_data_opt for one pixel, from the
\* Option samples l, r, g, b
PixelOpt(enc, l, r, g, b) ==
    IF IsSome(l) /\ IsSome(r) /\ IsSome(g) /\ IsSome(b)
    THEN LET rgb_summ == RgbSum(Unwrap(r), Unwrap(g), Unwrap(b)) IN
         IF rgb_summ # 0
         THEN LET norm_r == FDiv(t_to_f64(Unwrap(r)), t_to_f64(rgb_summ), F64Bits)
                  norm_g == FDiv(t_to_f64(Unwrap(g)), t_to_f64(rgb_summ), F64Bits)
                  norm_b == FDiv(t_to_f64(Unwrap(b)), t_to_f64(rgb_summ), F64Bits)
                  lf     == t_to_f64(Unwrap(l))
              IN Computed(<<f64_to_t(enc, FMul(lf, norm_r, F64Bits)),
                            f64_to_t(enc, FMul(lf, norm_g, F64Bits)),
                            f64_to_t(enc, FMul(lf, norm_b, F64Bits))>>,
                          <<rgb_summ, rgb_summ, rgb_summ>>)
         ELSE Computed(<<0, 0, 0>>, <<>>)
    ELSE Computed(<<0, 0, 0>>, <<>>)

\* PixelPlain with a plausible slip: a pixel without colour keeps its
\* luminance in the three planes
PixelPlain_gray(p, l, r, g, b) ==
    IF r + g + b # 0
    THEN Computed(<<FMul(l, FDiv(r, r + g + b, p), p),
                    FMul(l, FDiv(g, r + g + b, p), p),
                    FMul(l, FDiv(b, r + g + b, p), p)>>,
                  <<r + g + b, r + g + b, r + g + b>>)
    ELSE Computed(<<FMul(l, FDiv(1, 1, p), p), FMul(l, FDiv(1, 1, p), p),
                    FMul(l, FDiv(1, 1, p), p)>>, <<>>)

\* the body of the loop of create_fits_rgb_data for one pixel, in the
\* native float type of mantissa width p
PixelPlain(p, l, r, g, b) ==
    LET rgb_summ == RgbSum(r, g, b) IN
    IF rgb_summ # 0
    THEN Computed(<<FMul(l, FDiv(r, rgb_summ, p), p),
                    FMul(l, FDiv(g, rgb_summ, p), p),
                    FMul(l, FDiv(b, rgb_summ, p), p)>>,
                  <<rgb_summ, rgb_summ, rgb_summ>>)
    ELSE Computed(<<FZero, FZero, FZero>>, <<>>)

\* the per-pixel result of the arm of create_rgb_hdu chosen for `enc`
Pixel(enc, l, r, g, b) ==
    IF enc \in IntEnc THEN PixelOpt(enc, l, r, g, b)
    ELSE PixelPlain(IF enc = "F32" THEN F32Bits ELSE F64Bits, l, r, g, b)

\* T::zero()
TZero(enc) == IF enc \in IntEnc THEN 0 ELSE FZero

\* the number of tuples izip!(l_arr, r_arr, g_arr, b_arr) yields
ZipLen == Min2(Min2(Len(sel.l.data), Len(sel.r.data)),
               Min2(Len(sel.g.data), Len(sel.b.data)))

\* SameEnc with a plausible slip: the arms look at luminance and red only
SameEnc_lr(l, r, g, b) ==
    /\ l.enc \in {"I32", "U32", "F32", "F64"}
    /\ r.enc = l.enc

\* the match of create_rgb_hdu: taken by one of its four merging arms
SameEnc(l, r, g, b) ==
    /\ l.enc \in {"I32", "U32", "F32", "F64"}
    /\ r.enc = l.enc
    /\ g.enc = l.enc
    /\ b.enc = l.enc

\* create_rgb_hdu up to the start of the merge loop: the shape of the
\* luminance plane, dims, the match on the four variants, result.resize
CreateRgbHdu ==
    /\ pc = "create_rgb_hdu"
    /\ LET shape == get_shape(sel.l) IN
       IF ~IsSome(shape)
       THEN /\ Stop(Err(MsgUnsupported))
            /\ UNCHANGED <<dims, res, i, writes, divided>>
       ELSE IF Len(Unwrap(shape)) < 2
       THEN /\ Stop(Panic(MsgIndex))
            /\ UNCHANGED <<dims, res, i, writes, divided>>
       ELSE LET width  == At(Unwrap(shape), 0)
                height == At(Unwrap(shape), 1)
                total  == width * height
            IN /\ dims' = <<width, height, 3>>
               /\ IF SameEnc(sel.l, sel.r, sel.g, sel.b)
                  THEN /\ res' = [n \in 1..(total * 3) |-> TZero(sel.l.enc)]
                       /\ writes' = [n \in 1..(total * 3) |-> 0]
                       /\ divided' = <<>>
                       /\ i' = 0
                       /\ pc' = "merge"
                       /\ UNCHANGED ret
                  ELSE /\ Stop(Err(MsgMismatch))
                       /\ UNCHANGED <<res, i, writes, divided>>
    /\ UNCHANGED <<files, k, fits, sel, hdu, h, inspected, primary, saved>>

\* MergeStep with a plausible slip: the three results of a pixel are stored
\* interleaved, at 3i, 3i + 1, 3i + 2
MergeStep_interleaved ==
    /\ pc = "merge"
    /\ i < ZipLen
    /\ LET px  == Pixel(sel.l.enc, At(sel.l.data, i), At(sel.r.data, i),
                        At(sel.g.data, i), At(sel.b.data, i))
           lum == px.lum
       IN IF i * 3 + 2 >= Len(res)
          THEN /\ Stop(Panic(MsgIndex))
               /\ UNCHANGED <<res, i, writes, divided>>
          ELSE /\ res' = Put(Put(Put(res, i * 3, lum[1]), i * 3 + 1, lum[2]),
                             i * 3 + 2, lum[3])
               /\ writes' = [n \in 1..Len(writes) |->
                               writes[n] + (IF (n - 1) \div 3 = i THEN 1 ELSE 0)]
               /\ divided' = Append(divided, px.by)
               /\ i' = i + 1
               /\ UNCHANGED <<pc, ret>>
    /\ UNCHANGED <<files, k, fits, sel, hdu, h, inspected, dims, primary, saved>>

\* one iteration of the loop over izip!(l_arr, r_arr, g_arr, b_arr).enumerate()
MergeStep ==
    /\ pc = "merge"
    /\ i < ZipLen
    /\ LET total == dims[1] * dims[2]
           px    == Pixel(sel.l.enc, At(sel.l.data, i), At(sel.r.data, i),
                          At(sel.g.data, i), At(sel.b.data, i))
           lum   == px.lum
       IN IF i + total * 2 >= Len(res)
          THEN /\ Stop(Panic(MsgIndex))
               /\ UNCHANGED <<res, i, writes, divided>>
          ELSE /\ res' = Put(Put(Put(res, i, lum[1]), i + total, lum[2]),
                             i + total * 2, lum[3])
               /\ writes' = [n \in 1..Len(writes) |->
                               writes[n] + (IF n - 1 = i THEN 1 ELSE 0)
                                         + (IF n - 1 = i + total THEN 1 ELSE 0)
                                         + (IF n - 1 = i + total * 2 THEN 1 ELSE 0)]
               /\ divided' = Append(divided, px.by)
               /\ i' = i + 1
               /\ UNCHANGED <<pc, ret>>
    /\ UNCHANGED <<files, k, fits, sel, hdu, h, inspected, dims, primary, saved>>

\* the loop is exhausted: Hdu::new(&dims, result), Ok(primary_hdu)
MergeReturn ==
    /\ pc = "merge"
    /\ i >= ZipLen
    /\ primary' = [dims |-> dims, data |-> res]
    /\ pc' = "create"
    /\ UNCHANGED <<files, k, fits, sel, hdu, h, inspected, dims, res, i, writes, divided,
                   saved, ret>>

\* Fits::create(&opt.out_file, primary_hdu).expect(..); Ok(())
Create ==
    /\ pc = "create"
    /\ saved' = saved + 1
    /\ \E written \in BOOLEAN : Stop(IF written THEN Ok ELSE Panic(MsgSave))
    /\ UNCHANGED <<files, k, fits, sel, hdu, h, inspected, dims, res, i, writes, divided,
                   primary>>


(***************************************************************************)
(* Initial states.                                                         *)
(***************************************************************************)
File(hdus) == [ok |-> TRUE, hdus |-> hdus]
Unopenable == [ok |-> FALSE, hdus |-> <<>>]

\* a buffer of n samples of value v in the sample type of `enc`
Fill(enc, n, v) == [x \in 1..n |-> IF enc \in IntEnc THEN Some(v) ELSE v]

\* the state of execute on entry, given the four files
Start(fs) ==
    /\ files = fs
    /\ pc = "open"
    /\ k = 1
    /\ fits = [c \in Channels |-> <<>>]
    /\ sel = [c \in Channels |-> NoData]
    /\ hdu = 0
    /\ h = 1
    /\ inspected = <<>>
    /\ dims = <<>>
    /\ res = <<>>
    /\ i = 0
    /\ writes = <<>>
    /\ divided = <<>>
    /\ primary = NoHdu
    /\ saved = 0
    /\ ret = Running

\* the sample every pixel of a channel holds in the files of Spec
ChannelVal(c) == CASE c = "l" -> 9 [] c = "r" -> 1 [] c = "g" -> 2 [] c = "b" -> 3

Gray(enc, c) == FitsData(enc, <<2, 1>>, Fill(enc, 2, ChannelVal(c)))
Text(c)      == FitsData("Chars", <<2, 1>>, Fill("Chars", 2, ChannelVal(c)))
Cube(enc, c) == FitsData(enc, <<1, 1, 3>>, Fill(enc, 3, ChannelVal(c)))

\* the files a channel is drawn from: one that cannot be opened, an empty
\* container, one grayscale plane of each numeric variant, a plane behind
\* non-grayscale HDUs, and two grayscale planes
FileMenu(c) ==
    << Unopenable,
       File(<<>>),
       File(<<Gray("I32", c)>>),
       File(<<Gray("U32", c)>>),
       File(<<Gray("F32", c)>>),
       File(<<Gray("F64", c)>>),
       File(<<Text(c), Cube("F32", c), Gray("I32", c)>>),
       File(<<Gray("I32", c), Gray("I32", c)>>) >>

Init ==
    \E pick \in [Channels -> 1..Len(FileMenu("l"))] :
        Start([c \in Channels |-> FileMenu(c)[pick[c]]])

\* the shapes of the HDUs find_mono_data is given
FindShapes == {<<2>>, <<1, 2>>, <<2, 1, 1>>, <<1, 2, 3>>, <<1, 2, 1, 1>>}
HduKinds == [enc : Encodings, shape : FindShapes]

\* a container of the given kinds; the samples of an HDU are its position
Container(kinds) ==
    [pos \in 1..Len(kinds) |->
        FitsData(kinds[pos].enc, kinds[pos].shape,
                 Fill(kinds[pos].enc, Product(kinds[pos].shape), pos))]

\* execute on a red file holding any container of up to MaxHdus HDUs
InitFind ==
    \E n \in 0..MaxHdus : \E kinds \in [1..n -> HduKinds] :
        Start([c \in Channels |->
                 IF c = "r" THEN File(Container(kinds)) ELSE Unopenable])

\* the state of execute once the four planes `planes` have been selected,
\* each from a file holding that plane alone
Selected(planes) ==
    /\ files = [c \in Channels |-> File(<<planes[c]>>)]
    /\ pc = "create_rgb_hdu"
    /\ k = Len(Order)
    /\ fits = [c \in Channels |-> <<planes[c]>>]
    /\ sel = planes
    /\ hdu = 1
    /\ h = 2
    /\ inspected = <<1>>
    /\ dims = <<>>
    /\ res = <<>>
    /\ i = 0
    /\ writes = <<>>
    /\ divided = <<>>
    /\ primary = NoHdu
    /\ saved = 0
    /\ ret = Running

\* the sample values of a variant up to `hi`: i32 and the floats are signed
Values(enc, hi) == IF enc = "U32" THEN 0..hi ELSE (-1)..hi
\* the samples of a variant: None too for the integer variants
Samples(enc, hi) ==
    IF enc \in IntEnc THEN {None} \cup {Some(v) : v \in Values(enc, hi)}
    ELSE Values(enc, hi)

\* one-pixel planes holding any samples within the bounds
InitPixel ==
    \E enc \in Supported :
    \E l \in Samples(enc, MaxLum) :
    \E r \in Samples(enc, MaxVal), g \in Samples(enc, MaxVal), b \in Samples(enc, MaxVal) :
        Selected([c \in Channels |->
            FitsData(enc, <<1, 1>>,
                     <<CASE c = "l" -> l [] c = "r" -> r [] c = "g" -> g [] c = "b" -> b>>)])

\* the buffer of n samples of a channel in the planes of InitPlanes: its
\* samples count up from ChannelVal; with `hole` the second one is missing
\* (None in an integer variant, 0 in a floating-point one)
Ramp(enc, c, n, hole) ==
    [x \in 1..n |->
        IF hole /\ x = 2 THEN (IF enc \in IntEnc THEN None ELSE 0)
        ELSE IF enc \in IntEnc THEN Some(ChannelVal(c) + x - 1)
        ELSE ChannelVal(c) + x - 1]

\* the buffer lengths of the red, green and blue planes: those of the
\* two-pixel luminance plane, or one of them shorter or longer
PlaneLens ==
    {<<2, 2, 2>>, <<1, 2, 2>>, <<3, 2, 2>>, <<2, 1, 2>>, <<2, 3, 2>>, <<2, 2, 1>>, <<2, 2, 3>>}

\* two-pixel luminance planes of each grayscale shape with red, green and
\* blue planes of the same or of another length
InitPlanes ==
    \E enc \in Supported :
    \E lshape \in {<<2, 1>>, <<1, 2>>, <<1, 2, 1>>} :
    \E lens \in PlaneLens :
    \E hole \in [Channels -> BOOLEAN] :
        Selected([c \in Channels |->
            CASE c = "l" -> FitsData(enc, lshape, Ramp(enc, c, 2, hole[c]))
              [] c = "r" -> FitsData(enc, <<lens[1], 1>>, Ramp(enc, c, lens[1], hole[c]))
              [] c = "g" -> FitsData(enc, <<lens[2], 1>>, Ramp(enc, c, lens[2], hole[c]))
              [] c = "b" -> FitsData(enc, <<lens[3], 1>>, Ramp(enc, c, lens[3], hole[c]))])

InitMerge == InitPixel \/ InitPlanes

(***************************************************************************)
(* Specifications: the whole of execute, execute up to the selection of    *)
(* the red plane, and execute from create_rgb_hdu on.                      *)
(***************************************************************************)
Next ==
    \/ Open
    \/ FindStep
    \/ FindReturn
    \/ CreateRgbHdu
    \/ MergeStep
    \/ MergeReturn
    \/ Create

Spec == Init /\ [][Next]_vars

NextFind ==
    \/ Open
    \/ FindStep
    \/ FindReturn

SpecFind == InitFind /\ [][NextFind]_vars

NextMerge ==
    \/ CreateRgbHdu
    \/ MergeStep
    \/ MergeReturn
    \/ Create

SpecMerge == InitMerge /\ [][NextMerge]_vars


(***************************************************************************)
(* Properties.  The vocabulary below is that of the specification, written *)
(* from its words and not from the operators of the model above.           *)
(***************************************************************************)
\* a grayscale candidate: a plane of a supported numeric encoding with 2
\* dimensions, or with 3 dimensions of which the third extent is 1
Candidate(d) ==
    /\ d.enc \in Supported
    /\ \/ Len(d.shape) = 2
       \/ Len(d.shape) = 3 /\ d.shape[3] = 1

\* the positions of the candidates of a container
Candidates(hdus) == {pos \in 1..Len(hdus) : Candidate(hdus[pos])}

SetMin(S) == CHOOSE x \in S : \A y \in S : x <= y

\* the call of find_mono_data on the red file is over
FindRedOver == ~(k = 1 /\ pc \in {"open", "find"})

\* C1: once find_mono_data is over on a red container without any grayscale
\* candidate (the empty container too), execute has received an error value
\* and no plane: it has not panicked.
C1_NotFoundIsAnError ==
    (files.r.ok /\ Candidates(files.r.hdus) = {} /\ FindRedOver)
        => (ret.kind = "err" /\ sel.r.enc = "none")

\* the position of the second candidate of a container with two or more
SecondCandidate(hdus) ==
    SetMin(Candidates(hdus) \ {SetMin(Candidates(hdus))})

C3_UniqueCandidateSelected ==
    (files.r.ok /\ Cardinality(Candidates(files.r.hdus)) = 1 /\ FindRedOver)
        => /\ sel.r = files.r.hdus[SetMin(Candidates(files.r.hdus))]
           /\ ret # Err(MsgAmbiguous)
           /\ ret.kind # "panic"

\* C3 witness: the candidate is found between a Chars HDU of a grayscale
\* shape and a supported HDU with four dimensions
C3_Witness ==
    /\ Len(files.r.hdus) = 3
    /\ Candidates(files.r.hdus) = {2}
    /\ files.r.hdus[1].enc = "Chars" /\ files.r.hdus[1].shape = <<1, 2>>
    /\ files.r.hdus[3].enc = "F64" /\ files.r.hdus[3].shape = <<1, 2, 1, 1>>
    /\ sel.r = files.r.hdus[2]

\* what the specification expects of one input file
FileFailure(c) ==
    IF ~files[c].ok THEN "IoFailure"
    ELSE IF Candidates(files[c].hdus) = {} THEN "GrayscaleNotFound"
    ELSE IF Cardinality(Candidates(files[c].hdus)) >= 2 THEN "AmbiguousGrayscale"
    ELSE "none"

\* the encoding of the plane the specification selects from a good file
PlaneEnc(c) == files[c].hdus[SetMin(Candidates(files[c].hdus))].enc

\* the first failure the specification expects of a run of execute
ExpectedFailure ==
    LET bad == {n \in 1..Len(Order) : FileFailure(Order[n]) # "none"} IN
    IF bad # {} THEN FileFailure(Order[SetMin(bad)])
    ELSE IF \E c \in Channels : PlaneEnc(c) # PlaneEnc("l") THEN "EncodingMismatch"
    ELSE "none"

\* C4: the writer is invoked at most once and only after the four opens, the
\* four selections and the composition have succeeded; a run of execute in
\* which one of these steps fails ends without an invocation of the writer
\* and with that step's error returned to the caller.
C4_NoOutputOnFailure ==
    /\ saved <= 1
    /\ saved = 1 => /\ \A c \in Channels : files[c].ok /\ sel[c].enc # "none"
                    /\ primary # NoHdu
    /\ (pc = "done" /\ ExpectedFailure # "none") =>
            /\ saved = 0
            /\ primary = NoHdu
            /\ ret.kind = "err"
            /\ ExpectedFailure = "IoFailure" => ret = Err(MsgIo)
            /\ ExpectedFailure = "AmbiguousGrayscale" => ret = Err(MsgAmbiguous)
            /\ ExpectedFailure = "EncodingMismatch" => ret = Err(MsgMismatch)

\* create_rgb_hdu has been called and has got past its match
HduMatched == pc \in {"merge", "create", "done"} /\ \A c \in Channels : sel[c].enc # "none"

\* C5: create_rgb_hdu goes on to a composite exactly when the four planes
\* carry the same supported encoding; when two of them differ it returns the
\* type mismatch error, there is no composite and the writer is not invoked.
C5_EncodingMismatch ==
    HduMatched =>
        IF \A c \in Channels : sel[c].enc = sel.l.enc /\ sel[c].enc \in Supported
        THEN /\ ret.kind # "err"
             /\ pc \in {"create", "done"} => primary # NoHdu
        ELSE /\ ret = Err(MsgMismatch)
             /\ pc = "done"
             /\ primary = NoHdu
             /\ saved = 0

\* C5 witness: an f32 luminance plane with i32 colour planes was refused
C5_Witness ==
    /\ sel.l.enc = "F32"
    /\ sel.r.enc = "I32" /\ sel.g.enc = "I32" /\ sel.b.enc = "I32"
    /\ ret = Err(MsgMismatch)

\* the composition is over: create_rgb_hdu has returned or failed
Composed == pc \in {"create", "done"}

\* the pixel count of a plane
PixelCount(c) == Len(sel[c].data)

\* C6: when the buffer of the red, green or blue plane differs in length
\* from that of the luminance plane, the composition ends in the shape
\* mismatch error and returns no composite.
C6_ShapeMismatch ==
    (Composed /\ \E c \in Channels : PixelCount(c) # PixelCount("l"))
        => /\ ret = Err("shape mismatch")
           /\ primary = NoHdu

\* the samples of pixel idx (zero-based), in the order l, r, g, b
Px(idx) == <<sel.l.data[idx + 1], sel.r.data[idx + 1], sel.g.data[idx + 1],
             sel.b.data[idx + 1]>>

\* the pixels present in the four planes
Pixels == 0..(Min2(Min2(PixelCount("l"), PixelCount("r")),
                   Min2(PixelCount("g"), PixelCount("b"))) - 1)

\* the number of pixels of the luminance plane
Total == sel.l.shape[1] * sel.l.shape[2]

\* the three results stored for pixel idx
Out(idx) == <<res[idx + 1], res[idx + Total + 1], res[idx + 2 * Total + 1]>>

\* n / d for d # 0 rounded to the nearest integer, halves to even
RoundNearest(n, d) ==
    LET q   == Abs(n) \div Abs(d)
        rem == Abs(n) % Abs(d)
        up  == 2 * rem > Abs(d) \/ (2 * rem = Abs(d) /\ q % 2 = 1)
    IN Sign(n) * Sign(d) * (q + (IF up THEN 1 ELSE 0))

\* pixel idx of integer planes has four present samples and a non-zero sum
Weighted(idx) ==
    /\ sel.l.enc \in IntEnc
    /\ \A n \in 1..4 : Px(idx)[n] # None
    /\ Px(idx)[2][1] + Px(idx)[3][1] + Px(idx)[4][1] # 0

\* C7 as claimed: every merged pixel of integer planes with four present
\* samples and a non-zero sum holds L*R/sum, L*G/sum, L*B/sum rounded to the
\* nearest integer (halves to even, the rule under which 9, 1, 2, 3 gives
\* 2, 3, 4).
C7_RoundedToNearest ==
    pc \in {"merge", "create", "done"} =>
        \A idx \in Pixels : (idx < i /\ Weighted(idx)) =>
            LET l    == Px(idx)[1][1]
                summ == Px(idx)[2][1] + Px(idx)[3][1] + Px(idx)[4][1]
            IN Out(idx) = <<RoundNearest(l * Px(idx)[2][1], summ),
                            RoundNearest(l * Px(idx)[3][1], summ),
                            RoundNearest(l * Px(idx)[4][1], summ)>>

\* the f64 value x truncated toward zero
Truncated(x) == x.sgn * TruncMag(x)

\* C7 as amended: every merged pixel of integer planes with four present
\* samples and a non-zero sum holds the f64 values L*(R/sum), L*(G/sum),
\* L*(B/sum) truncated toward zero; 9, 1, 2, 3 gives 1, 3, 4.
C7_TruncatedTowardZero ==
    pc \in {"merge", "create", "done"} =>
        \A idx \in Pixels : (idx < i /\ Weighted(idx)) =>
            LET l    == Px(idx)[1][1]
                summ == Px(idx)[2][1] + Px(idx)[3][1] + Px(idx)[4][1]
            IN /\ Out(idx) = <<Truncated(FMul(l, FDiv(Px(idx)[2][1], summ, F64Bits), F64Bits)),
                               Truncated(FMul(l, FDiv(Px(idx)[3][1], summ, F64Bits), F64Bits)),
                               Truncated(FMul(l, FDiv(Px(idx)[4][1], summ, F64Bits), F64Bits))>>
               /\ Px(idx) = <<Some(9), Some(1), Some(2), Some(3)>> => Out(idx) = <<1, 3, 4>>

\* C7 witness: the pixel 9, 1, 2, 3 of i32 planes has been merged to 1, 3, 4
C7_Witness ==
    /\ sel.l.enc = "I32"
    /\ pc = "done"
    /\ Px(0) = <<Some(9), Some(1), Some(2), Some(3)>>
    /\ primary.data = <<1, 3, 4>>

\* C8: in a composite of integer planes every pixel with a None among its
\* four samples holds 0 in the three planes, whatever the other samples are.
C8_NoDataIsBlack ==
    (pc \in {"merge", "create", "done"} /\ sel.l.enc \in IntEnc) =>
        \A idx \in Pixels : (\E n \in 1..4 : Px(idx)[n] = None) => Out(idx) = <<0, 0, 0>>

\* C8 witness: the second pixel has been merged with a None red sample and
\* present, non-zero luminance, green and blue samples
C8_Witness ==
    /\ sel.l.enc \in IntEnc
    /\ pc = "done"
    /\ i = 2
    /\ Px(1)[2] = None
    /\ \A n \in {1, 3, 4} : Px(1)[n] # None /\ Px(1)[n] # Some(0)

\* the value of a sample of pixel idx (of a present one in integer planes)
Val(idx, n) == IF sel.l.enc \in IntEnc THEN Px(idx)[n][1] ELSE Px(idx)[n]

\* pixel idx has four samples whose colours sum to zero
ZeroSum(idx) ==
    /\ sel.l.enc \in IntEnc => \A n \in 1..4 : Px(idx)[n] # None
    /\ Val(idx, 2) + Val(idx, 3) + Val(idx, 4) = 0

\* C9: in every encoding a merged pixel whose red, green and blue samples sum
\* to zero (signed samples that cancel too) holds zero in the three planes,
\* whatever its luminance is, no division was evaluated for it, and no
\* division of the loop ever had the divisor zero.
C9_ZeroSumIsBlack ==
    pc \in {"merge", "create", "done"} =>
        /\ \A idx \in Pixels : (idx < i /\ ZeroSum(idx)) =>
              /\ Out(idx) = IF sel.l.enc \in IntEnc THEN <<0, 0, 0>>
                            ELSE <<FZero, FZero, FZero>>
              /\ divided[idx + 1] = <<>>
        /\ \A n \in 1..Len(divided) : \A d \in 1..Len(divided[n]) : divided[n][d] # 0

\* C9 witness: a pixel of f64 planes with luminance 9 and colours 1, -1, 0
\* has been merged
C9_Witness ==
    /\ sel.l.enc = "F64"
    /\ pc = "done"
    /\ Px(0) = <<9, 1, -1, 0>>

\* the four planes have the pixel count of the luminance shape
SameShape == \A c \in Channels : PixelCount(c) = Total

\* the results the per-pixel rule gives for pixel idx
Expected(idx) == Pixel(sel.l.enc, Px(idx)[1], Px(idx)[2], Px(idx)[3], Px(idx)[4]).lum

\* C10: for planes of one shape the composite has the shape
\* [width, height, 3] of the luminance plane and a buffer of 3*width*height
\* samples, with the red, green and blue result of pixel idx at idx,
\* idx + width*height and idx + 2*width*height; the loop has stored to every
\* index exactly once and to none outside the buffer.
C10_PlanarLayout ==
    (Composed /\ SameShape) =>
        /\ primary.dims = <<sel.l.shape[1], sel.l.shape[2], 3>>
        /\ Len(primary.data) = 3 * Total
        /\ \A idx \in 0..(Total - 1) :
              /\ primary.data[idx + 1] = Expected(idx)[1]
              /\ primary.data[idx + Total + 1] = Expected(idx)[2]
              /\ primary.data[idx + 2 * Total + 1] = Expected(idx)[3]
        /\ writes = [n \in 1..(3 * Total) |-> 1]
        /\ ret # Panic(MsgIndex)

\* C10 witness: a composite of two pixels with different red results, from a
\* luminance plane of shape [1, 2, 1], has been written
C10_Witness ==
    /\ pc = "done"
    /\ ret = Ok
    /\ SameShape
    /\ sel.l.shape = <<1, 2, 1>>
    /\ primary.dims = <<1, 2, 3>>
    /\ primary.data[1] # primary.data[2]

=============================================================================
